---- MODULE Spec2Model ----
(***************************************************************************)
(* rgping: a sampling task (Pinger::run) probes a host and sends           *)
(* PingSamples over a bounded tokio mpsc channel to a blocking dashboard   *)
(* thread (Ui::run_tui), which applies them to a rolling history           *)
(* (UiState) and redraws; main races SIGINT, the sampling task and the     *)
(* dashboard task in one tokio::select!.                                   *)
(***************************************************************************)
EXTENDS Integers, Sequences, FiniteSets, TLC

(* ---- bounds of the model ---------------------------------------------- *)
\* number of probe cycles explored (Pinger.seq is an unbounded u64)
MaxSeq == 4
\* slots of the mpsc channel; main.rs:34 builds it with 256, scaled down so
\* that a full channel is reached within MaxSeq cycles
ChanCap == 2
\* largest --history value explored (usize, default 120); 0 is accepted by clap
MaxHist == 2
\* lines of ping output explored
MaxLines == 2

\* round-trip times (ms) the probe may report (one value and None are enough
\* to tell the samples of the pipeline apart)
RTTs == {5}

(* ---- Option<f64> ------------------------------------------------------ *)
None == << >>
Some(v) == << v >>
OptionRtt == {None} \cup {Some(v) : v \in RTTs}

Max(a, b) == IF a >= b THEN a ELSE b
Min(a, b) == IF a <= b THEN a ELSE b

(* ---- pinger.rs -------------------------------------------------------- *)
PingSample(s, r) == [seq |-> s, rtt_ms |-> r]

\* one line of ping's stdout: whether it contains "time=", and what the text
\* between "time=" and the next space parses to as f64 (None: parse error)
Lines == {[marker |-> FALSE, val |-> None]}
         \cup {[marker |-> TRUE, val |-> v] : v \in OptionRtt}

SeqsUpTo(S, n) == UNION {[1..k -> S] : k \in 0..n}

Stdouts == SeqsUpTo(Lines, MaxLines)

\* the closure of find_map: Some(value) for a line with a parsable "time="
LineRtt(line) == IF line.marker THEN line.val ELSE None

\* stdout.lines().find_map(..): the first line for which the closure is Some
RECURSIVE FindMap(_)
FindMap(lines) ==
    IF lines = << >> THEN None
    ELSE IF LineRtt(Head(lines)) # None THEN LineRtt(Head(lines))
    ELSE FindMap(Tail(lines))

\* what one run of the external `ping -n -c 1 -w <secs> host` can do:
\*   spawn_err  Command::output() fails (no such binary, fork failure)
\*   timeout    no reply before the -w deadline: ping exits non-zero
\*   nonzero    any other non-zero exit (unknown host, unreachable)
\*   no_rtt     exit 0 but no line with a parsable "time="
\*   rtt        exit 0 and a line with a parsable "time="
ProbeOutcomes ==
    {[kind |-> "spawn_err", success |-> FALSE, stdout |-> << >>]}
    \cup {[kind |-> k, success |-> FALSE, stdout |-> o] :
             k \in {"timeout", "nonzero"}, o \in Stdouts}
    \cup {[kind |-> IF FindMap(o) = None THEN "no_rtt" ELSE "rtt",
           success |-> TRUE, stdout |-> o] : o \in Stdouts}

\* ping_once_linux without the `if !out.status.success()` early return
ping_once_linux_ignores_status(s, o) ==
    IF o.kind = "spawn_err" THEN [ok |-> FALSE, seq |-> s, sample |-> PingSample(s, None)]
    ELSE [ok |-> TRUE, seq |-> s + 1, sample |-> PingSample(s + 1, FindMap(o.stdout))]

\* Pinger::ping_once_linux on self.seq = s: `?` on the spawn error returns Err
\* before seq is advanced; otherwise seq += 1 and the sample is built
ping_once_linux(s, o) ==
    IF o.kind = "spawn_err" THEN [ok |-> FALSE, seq |-> s, sample |-> PingSample(s, None)]
    ELSE IF ~o.success THEN [ok |-> TRUE, seq |-> s + 1, sample |-> PingSample(s + 1, None)]
    ELSE [ok |-> TRUE, seq |-> s + 1, sample |-> PingSample(s + 1, FindMap(o.stdout))]

\* Pinger::ping_once (target_os = "linux")
ping_once(s, o) == ping_once_linux(s, o)

\* the unwrap_or_else closure without its `self.seq += 1`
probe_cycle_handler_keeps_seq(s, o) ==
    LET r == ping_once(s, o) IN
    IF r.ok THEN [seq |-> r.seq, sample |-> r.sample]
    ELSE [seq |-> r.seq, sample |-> PingSample(r.seq, None)]

\* run: self.ping_once().await.unwrap_or_else(|_| { self.seq += 1; ... None })
probe_cycle(s, o) ==
    LET r == ping_once(s, o) IN
    IF r.ok THEN [seq |-> r.seq, sample |-> r.sample]
    ELSE [seq |-> r.seq + 1, sample |-> PingSample(r.seq + 1, None)]

(* ---- ui.rs: UiState --------------------------------------------------- *)
\* push that appends first and evicts afterwards
push_steps_append_first(r, rtt, h) ==
    LET grown == Append(r, rtt)
    IN << grown, IF Len(grown) > h THEN Tail(grown) ELSE grown >>

\* push that evicts the newest entry (pop_back) instead of the oldest
push_steps_pop_back(r, rtt, h) ==
    LET evicted == IF Len(r) = h /\ r # << >> THEN SubSeq(r, 1, Len(r) - 1) ELSE r
    IN << evicted, Append(evicted, rtt) >>

\* UiState::push on the ring: the ring after each of its two statements,
\* `if len == history { pop_front }` and then `push_back(rtt)`
push_steps(r, rtt, h) ==
    LET evicted == IF Len(r) = h /\ r # << >> THEN Tail(r) ELSE r
    IN << evicted, Append(evicted, rtt) >>

\* the counters and `last` that push keeps, counting only answered probes
push_counts_skips_lost(t, l, rtt) ==
    [total |-> IF rtt = None THEN t ELSE t + 1,
     lost |-> IF rtt = None THEN l + 1 ELSE l,
     last |-> rtt]

\* UiState::push on total, lost and last (ui.rs:41-43)
push_counts(t, l, rtt) ==
    [total |-> t + 1,
     lost |-> IF rtt = None THEN l + 1 ELSE l,
     last |-> rtt]

\* an f64 quotient a / b, kept as the exact fraction (rounding of f64 is not
\* modelled; the values explored are small integers)
Frac(a, b) == [num |-> a, den |-> b]

\* the loop of avg and y_max: self.rtts.iter().flatten() visits the Some values
RECURSIVE SumCnt(_)
SumCnt(r) ==
    IF r = << >> THEN [sum |-> 0, cnt |-> 0]
    ELSE LET rest == SumCnt(Tail(r)) IN
         IF Head(r) = None THEN rest
         ELSE [sum |-> Head(r)[1] + rest.sum, cnt |-> rest.cnt + 1]

\* an avg that counts an absent value as a zero
avg_counts_lost_as_zero(r) ==
    IF r = << >> THEN None ELSE Some(Frac(SumCnt(r).sum, Len(r)))

\* UiState::avg: (cnt > 0).then(|| sum / cnt as f64)
avg(r) ==
    LET a == SumCnt(r) IN
    IF a.cnt > 0 THEN Some(Frac(a.sum, a.cnt)) ELSE None

\* a loss percentage over the window instead of the run
loss_pct_windowed(t, l, r) ==
    IF r = << >> THEN Frac(0, 1)
    ELSE Frac(Len(SelectSeq(r, LAMBDA v : v = None)) * 100, Len(r))

\* UiState::loss_pct on total t and lost l (the ring r is not read)
loss_pct(t, l, r) ==
    IF t = 0 THEN Frac(0, 1) ELSE Frac(l * 100, t)

\* the largest Some value of the ring, starting from m (the loop of y_max)
RECURSIVE MaxFrom(_, _)
MaxFrom(m, r) ==
    IF r = << >> THEN m
    ELSE IF Head(r) # None /\ Head(r)[1] > m THEN MaxFrom(Head(r)[1], Tail(r))
    ELSE MaxFrom(m, Tail(r))

\* (m * 1.20).ceil() for an integer m
CeilScaled(m) == (m * 12 + 9) \div 10

\* a y_max without the floor of 10
y_max_no_floor(r) == CeilScaled(MaxFrom(0, r))

\* UiState::y_max
y_max(r) == CeilScaled(MaxFrom(10, r))

\* what the draw closure puts on the screen (ui.rs:128-177): the chart points
\* and axis bound, and the footer's last / avg / loss; `shown` records how
\* many samples had been applied when the frame was drawn
render(r, t, l, la) ==
    [points |-> r, y_max |-> y_max(r), last |-> la, avg |-> avg(r),
     loss |-> loss_pct(t, l, r), shown |-> t]

\* ping_once_linux: self.cfg.timeout.as_secs().max(1), the argument of -w
timeout_secs(ms) == Max(ms \div 1000, 1)

VARIABLES
    timeout_ms, \* PingConfig.timeout in ms (Args.timeout_ms)
    wArg,       \* seconds given to `ping -w` by the last probe, 0 before one
    runRes,     \* what Pinger::run returned: "none", "ok", "err"
    frame,      \* the last frame drawn, NoFrame before one
    history,    \* UiConfig.history (Args.history)
    seq,        \* Pinger.seq
    pcP,        \* sampling task: "probe","send","send_wait","sleep","stopped","cancelled"
    sample,     \* the PingSample held by run between probe and send
    outKind,    \* what the last probe did (kind of ProbeOutcomes), "-" before one
    chan,       \* messages buffered in the mpsc channel
    rxOpen,     \* the Receiver has not been dropped
    txOpen,     \* the Sender has not been dropped
    pcU,        \* dashboard thread position in run_tui
    res,        \* run_tui's `res` / its return value: "none","ok","err"
    rtts, total, lost, last,   \* UiState
    rawMode, altScreen,        \* terminal state
    pcM,        \* main: "select","shutdown","exited"
    exitCode,   \* process exit status, -1 while running
    sigint,     \* SIGINT delivered: signal::ctrl_c() is ready
    \* history variables
    produced,   \* every PingSample built by the sampling loop, in order
    sent,       \* every PingSample whose send returned Ok, in order
    applied,    \* every PingSample passed to Ui::push, in order
    peak,       \* largest ring length seen after any statement of push
    acquired,   \* enable_raw_mode has succeeded
    restores,   \* times the terminal was taken back out of raw mode + alt screen
    quitSeen    \* a quit key has been read

pingerVars == << seq, pcP, sample, outKind, produced, wArg, runRes >>
chanVars == << chan, rxOpen, txOpen, sent >>
storeVars == << rtts, total, lost, last, applied, peak >>
termVars == << rawMode, altScreen, acquired, restores >>
mainVars == << pcM, exitCode, sigint >>
uiVars == << pcU, res, quitSeen, frame >>
cfgVars == << history, timeout_ms >>
vars == << cfgVars, pingerVars, chanVars, storeVars, termVars, mainVars, uiVars >>

NoSample == PingSample(0, None)
NoFrame == [points |-> << >>, y_max |-> 0, last |-> None, avg |-> None,
            loss |-> Frac(0, 1), shown |-> 0]

\* clap's default_value_t of --timeout-ms
DefaultTimeoutMs == 1000

\* the state after main has built the channel, the Pinger and the Ui
\* (Pinger::new, UiState::new) and spawned both activities
Started ==
    /\ wArg = 0 /\ runRes = "none" /\ frame = NoFrame
    /\ seq = 0 /\ pcP = "probe" /\ sample = NoSample /\ outKind = "-"
    /\ chan = << >> /\ rxOpen = TRUE /\ txOpen = TRUE
    /\ pcU = "raw" /\ res = "none"
    /\ rtts = << >> /\ total = 0 /\ lost = 0 /\ last = None
    /\ rawMode = FALSE /\ altScreen = FALSE
    /\ pcM = "select" /\ exitCode = -1 /\ sigint = FALSE
    /\ produced = << >> /\ sent = << >> /\ applied = << >>
    /\ peak = 0 /\ acquired = FALSE /\ restores = 0 /\ quitSeen = FALSE

Init ==
    /\ history \in 0..MaxHist /\ timeout_ms = DefaultTimeoutMs
    /\ Started

(* ---- Pinger::run ------------------------------------------------------ *)
\* one ping_once().await with its unwrap_or_else
Probe ==
    /\ pcP = "probe" /\ seq < MaxSeq
    /\ \E o \in ProbeOutcomes :
         LET c == probe_cycle(seq, o) IN
         /\ seq' = c.seq
         /\ sample' = c.sample
         /\ outKind' = o.kind
         /\ produced' = Append(produced, c.sample)
    /\ wArg' = timeout_secs(timeout_ms)
    /\ pcP' = "send" /\ UNCHANGED runRes
    /\ UNCHANGED << cfgVars, chanVars, storeVars, termVars, mainVars, uiVars >>

\* a channel that takes one message more than its capacity
has_permit_one_more(ch) == Len(ch) < ChanCap + 1

\* the channel has a free slot
has_permit(ch) == Len(ch) < ChanCap

\* a run that ignores the result of the send and goes on with the loop
SendErr_ignored ==
    /\ pcP' = "sleep" /\ sample' = NoSample /\ outKind' = "-"
    /\ UNCHANGED << chan, sent, txOpen, runRes >>

\* tx.send(sample).await returns Err: the sample is dropped, `break`, Ok(()),
\* and the task wrapper in main ends, dropping the Sender
SendErr ==
    /\ pcP' = "stopped" /\ txOpen' = FALSE /\ runRes' = "ok"
    /\ sample' = NoSample /\ outKind' = "-"
    /\ UNCHANGED << chan, sent >>

\* tx.send(sample).await returns Ok: the sample has moved into the channel
SendOk ==
    /\ chan' = Append(chan, sample) /\ sent' = Append(sent, sample)
    /\ sample' = NoSample /\ outKind' = "-"
    /\ pcP' = "sleep" /\ UNCHANGED << txOpen, runRes >>

\* a send that gives up on a full channel (try_send) and drops the sample
Send_try_send ==
    /\ pcP = "send"
    /\ IF ~rxOpen THEN SendErr
       ELSE IF has_permit(chan) THEN SendOk
       ELSE /\ pcP' = "sleep" /\ sample' = NoSample /\ outKind' = "-"
            /\ UNCHANGED << chan, sent, txOpen, runRes >>
    /\ UNCHANGED << cfgVars, seq, produced, wArg, rxOpen,
                    storeVars, termVars, mainVars, uiVars >>

\* first poll of tx.send(sample).await: Err when the receiver is gone, Ok when
\* a slot is free, otherwise the task suspends holding the sample
Send ==
    /\ pcP = "send"
    /\ IF ~rxOpen THEN SendErr
       ELSE IF has_permit(chan) THEN SendOk
       ELSE pcP' = "send_wait" /\ UNCHANGED << chan, sent, txOpen, sample, outKind, runRes >>
    /\ UNCHANGED << cfgVars, seq, produced, wArg, rxOpen,
                    storeVars, termVars, mainVars, uiVars >>

\* the suspended send is woken: by a freed slot, or by the receiver closing
SendResume ==
    /\ pcP = "send_wait"
    /\ \/ ~rxOpen /\ SendErr
       \/ rxOpen /\ has_permit(chan) /\ SendOk
    /\ UNCHANGED << cfgVars, seq, produced, wArg, rxOpen,
                    storeVars, termVars, mainVars, uiVars >>

\* sleep(interval - elapsed), or no sleep when the cycle overran
Sleep ==
    /\ pcP = "sleep"
    /\ pcP' = "probe"
    /\ UNCHANGED << cfgVars, seq, sample, outKind, produced, wArg, runRes, chanVars,
                    storeVars, termVars, mainVars, uiVars >>

PingerNext == Probe \/ Send \/ SendResume \/ Sleep

(* ---- Ui::run_tui ------------------------------------------------------ *)
\* run_tui returns r: its locals and parameters are dropped, the Receiver among
\* them, which closes the channel and discards what is still buffered
Return(r) ==
    /\ pcU' = "ret" /\ res' = r
    /\ rxOpen' = FALSE /\ chan' = << >>

\* enable_raw_mode()?
EnableRaw ==
    /\ pcU = "raw"
    /\ \/ /\ rawMode' = TRUE /\ acquired' = TRUE
          /\ pcU' = "enter" /\ UNCHANGED << res, rxOpen, chan >>
       \/ /\ Return("err") /\ UNCHANGED << rawMode, acquired >>
    /\ UNCHANGED << cfgVars, frame, pingerVars, txOpen, sent, storeVars, altScreen,
                    restores, mainVars, quitSeen >>

\* execute!(stdout, EnterAlternateScreen, EnableMouseCapture)?; a failed write
\* may or may not have switched the screen already
EnterAlt ==
    /\ pcU = "enter"
    /\ \/ /\ altScreen' = TRUE
          /\ pcU' = "term" /\ UNCHANGED << res, rxOpen, chan >>
       \/ /\ Return("err") /\ altScreen' \in BOOLEAN
    /\ UNCHANGED << cfgVars, frame, pingerVars, txOpen, sent, storeVars, rawMode,
                    acquired, restores, mainVars, quitSeen >>

\* Terminal::new(backend)?
NewTerminal ==
    /\ pcU = "term"
    /\ \/ pcU' = "poll" /\ UNCHANGED << res, rxOpen, chan >>
       \/ Return("err")
    /\ UNCHANGED << cfgVars, frame, pingerVars, txOpen, sent, storeVars, termVars,
                    mainVars, quitSeen >>

\* event::poll(10ms)?: an event is waiting, none came in time, or an error
Poll ==
    /\ pcU = "poll"
    /\ \/ pcU' = "read" /\ UNCHANGED << res, rxOpen, chan >>
       \/ pcU' = "drain" /\ UNCHANGED << res, rxOpen, chan >>
       \/ Return("err")
    /\ UNCHANGED << cfgVars, frame, pingerVars, txOpen, sent, storeVars, termVars,
                    mainVars, quitSeen >>

\* the events event::read() can deliver: keys (code, CONTROL held) and the rest
KeyCodes == {"q", "Esc", "c", "x"}
Events == {[key |-> TRUE, code |-> c, ctrl |-> m] : c \in KeyCodes, m \in BOOLEAN}
          \cup {[key |-> FALSE, code |-> "Resize", ctrl |-> FALSE]}

\* the condition of the `if` at ui.rs:97
is_quit(e) ==
    /\ e.key
    /\ \/ e.code = "q"
       \/ e.code = "Esc"
       \/ e.code = "c" /\ e.ctrl

\* event::read()? and the key test: break 'outer Ok(()) on a quit key
Read ==
    /\ pcU = "read"
    /\ \/ \E e \in Events :
            IF is_quit(e)
            THEN /\ pcU' = "disable" /\ res' = "ok" /\ quitSeen' = TRUE
                 /\ UNCHANGED << rxOpen, chan >>
            ELSE /\ pcU' = "poll" /\ UNCHANGED << res, quitSeen, rxOpen, chan >>
       \/ Return("err") /\ UNCHANGED quitSeen
    /\ UNCHANGED << cfgVars, frame, pingerVars, txOpen, sent, storeVars, termVars,
                    mainVars >>

\* a receive that leaves the message in the channel
try_recv_keeps(ch) == [msg |-> Head(ch), rest |-> ch]

\* a receive that takes the newest buffered message
try_recv_newest(ch) == [msg |-> ch[Len(ch)], rest |-> SubSeq(ch, 1, Len(ch) - 1)]

\* rx.try_recv() on a non-empty channel: the message taken and what is left
try_recv(ch) == [msg |-> Head(ch), rest |-> Tail(ch)]

\* one turn of `while let Ok(s) = rx.try_recv() { self.push(&s) }`:
\* UiState::push on the received sample, or Err (empty / disconnected) ends it
Drain ==
    /\ pcU = "drain"
    /\ IF chan # << >>
       THEN LET r == try_recv(chan)
                steps == push_steps(rtts, r.msg.rtt_ms, history)
                c == push_counts(total, lost, r.msg.rtt_ms)
            IN /\ chan' = r.rest
               /\ total' = c.total /\ lost' = c.lost /\ last' = c.last
               /\ rtts' = steps[2]
               /\ peak' = Max(peak, Max(Len(steps[1]), Len(steps[2])))
               /\ applied' = Append(applied, r.msg)
               /\ UNCHANGED pcU
       ELSE pcU' = "draw" /\ UNCHANGED << chan, storeVars >>
    /\ UNCHANGED << cfgVars, frame, pingerVars, rxOpen, txOpen, sent, termVars,
                    mainVars, res, quitSeen >>

\* terminal.draw(..)?: the closure renders the frame from the UiState
Draw ==
    /\ pcU = "draw"
    /\ \/ /\ frame' = render(rtts, total, lost, last)
          /\ pcU' = "poll" /\ UNCHANGED << res, rxOpen, chan >>
       \/ Return("err") /\ UNCHANGED frame
    /\ UNCHANGED << cfgVars, pingerVars, txOpen, sent, storeVars, termVars,
                    mainVars, quitSeen >>

\* disable_raw_mode()? after the loop
DisableRaw ==
    /\ pcU = "disable"
    /\ \/ /\ rawMode' = FALSE
          /\ pcU' = "leave" /\ UNCHANGED << res, rxOpen, chan >>
       \/ /\ Return("err") /\ UNCHANGED rawMode
    /\ UNCHANGED << cfgVars, frame, pingerVars, txOpen, sent, storeVars, altScreen,
                    acquired, restores, mainVars, quitSeen >>

\* execute!(terminal.backend_mut(), LeaveAlternateScreen, DisableMouseCapture)?
LeaveAlt ==
    /\ pcU = "leave"
    /\ \/ /\ altScreen' = FALSE /\ restores' = restores + 1
          /\ pcU' = "cursor" /\ UNCHANGED << res, rxOpen, chan >>
       \/ /\ Return("err") /\ altScreen' \in BOOLEAN /\ UNCHANGED restores
    /\ UNCHANGED << cfgVars, frame, pingerVars, txOpen, sent, storeVars, rawMode,
                    acquired, mainVars, quitSeen >>

\* terminal.show_cursor()?; res
ShowCursor ==
    /\ pcU = "cursor"
    /\ \/ Return(res)
       \/ Return("err")
    /\ UNCHANGED << cfgVars, frame, pingerVars, txOpen, sent, storeVars, termVars,
                    mainVars, quitSeen >>

\* the spawn_blocking closure has returned: ui_task's JoinHandle is ready
TaskDone ==
    /\ pcU = "ret"
    /\ pcU' = "done"
    /\ UNCHANGED << cfgVars, frame, pingerVars, chanVars, storeVars, termVars,
                    mainVars, res, quitSeen >>

UiNext ==
    \/ EnableRaw \/ EnterAlt \/ NewTerminal \/ Poll \/ Read \/ Drain \/ Draw
    \/ DisableRaw \/ LeaveAlt \/ ShowCursor \/ TaskDone

(* ---- main ------------------------------------------------------------- *)
\* SIGINT reaches the process while main awaits signal::ctrl_c() in select!
\* (later ones are swallowed by tokio's handler: nothing awaits them)
Sigint ==
    /\ pcM = "select" /\ ~sigint
    /\ sigint' = TRUE
    /\ UNCHANGED << cfgVars, pingerVars, chanVars, storeVars, termVars,
                    pcM, exitCode, uiVars >>

\* main returns with status st: the #[tokio::main] runtime starts to shut down
MainReturns(st) ==
    /\ pcM' = "shutdown" /\ exitCode' = st
    /\ UNCHANGED << cfgVars, pingerVars, chanVars, storeVars, termVars,
                    sigint, uiVars >>

\* select! arm `_ = signal::ctrl_c() => {}`, then Ok(())
SelectSignal == pcM = "select" /\ sigint /\ MainReturns(0)

\* select! arm `_ = ping_task => {}`, then Ok(())
SelectPing == pcM = "select" /\ pcP = "stopped" /\ MainReturns(0)

\* select! arm `ui_res = ui_task => { ui_res??; }`, then Ok(())
SelectUi ==
    /\ pcM = "select" /\ pcU = "done"
    /\ MainReturns(IF res = "ok" THEN 0 ELSE 1)

\* runtime shutdown drops the sampling task at an await point, and its Sender
CancelPing ==
    /\ pcM = "shutdown" /\ pcP \in {"probe", "send_wait", "sleep"}
    /\ pcP' = "cancelled" /\ txOpen' = FALSE
    /\ sample' = NoSample /\ outKind' = "-"
    /\ UNCHANGED << cfgVars, seq, produced, wArg, runRes, chan, rxOpen, sent,
                    storeVars, termVars, mainVars, uiVars >>

\* runtime shutdown waits for the spawn_blocking thread to return, with no
\* time limit; only then does the process exit with main's status
ProcessExit ==
    /\ pcM = "shutdown" /\ pcU = "done" /\ pcP \in {"stopped", "cancelled"}
    /\ pcM' = "exited"
    /\ UNCHANGED << cfgVars, pingerVars, chanVars, storeVars, termVars,
                    exitCode, sigint, uiVars >>

MainNext == SelectSignal \/ SelectPing \/ SelectUi \/ CancelPing \/ ProcessExit

Next == PingerNext \/ UiNext \/ Sigint \/ MainNext

Spec == Init /\ [][Next]_vars

\* every thread and task of the program keeps being scheduled; whether a key
\* is pressed or a signal is sent is up to the environment
FairSpec ==
    /\ Spec
    /\ WF_vars(PingerNext)
    /\ WF_vars(UiNext)
    /\ WF_vars(MainNext)

\* the hand-off between the two loops does not read the ring: its liveness
\* is explored with one capacity
HandoffInit ==
    /\ history = 1 /\ timeout_ms = DefaultTimeoutMs
    /\ Started

HandoffFairSpec ==
    /\ HandoffInit /\ [][Next]_vars
    /\ WF_vars(PingerNext)
    /\ WF_vars(UiNext)
    /\ WF_vars(MainNext)

(* ---- UiState driven directly ------------------------------------------ *)
\* capacities, RTT values and number of pushes explored for the statistics
UnitHist == 3
MaxPush == 4
UnitRTTs == {5, 10, 30, 50}
UnitOption == {None} \cup {Some(v) : v \in UnitRTTs}

StoreInit ==
    /\ history \in 1..UnitHist /\ timeout_ms = DefaultTimeoutMs
    /\ Started

\* Ui::push / UiState::push of one sample with any RTT
StorePush ==
    /\ total < MaxPush
    /\ \E rtt \in UnitOption :
         LET steps == push_steps(rtts, rtt, history)
             c == push_counts(total, lost, rtt)
         IN /\ total' = c.total /\ lost' = c.lost /\ last' = c.last
            /\ rtts' = steps[2]
            /\ peak' = Max(peak, Max(Len(steps[1]), Len(steps[2])))
            /\ applied' = Append(applied, PingSample(total + 1, rtt))
    /\ UNCHANGED << cfgVars, pingerVars, chanVars, termVars, mainVars, uiVars >>

\* the draw closure on the current UiState
StoreDraw ==
    /\ frame' = render(rtts, total, lost, last)
    /\ UNCHANGED << cfgVars, pingerVars, chanVars, storeVars, termVars,
                    mainVars, pcU, res, quitSeen >>

StoreNext == StorePush \/ StoreDraw

StoreSpec == StoreInit /\ [][StoreNext]_vars

(* ---- the probe's timeout argument -------------------------------------- *)
\* largest --timeout-ms explored
MaxTimeoutMs == 2500

TimeoutInit ==
    /\ history = 1 /\ timeout_ms \in 1..MaxTimeoutMs
    /\ Started

\* the first probe of a run with the configured timeout
TimeoutSpec == TimeoutInit /\ [][Probe]_vars

(* ---- helpers of the properties ----------------------------------------- *)
IsPrefix(a, b) == Len(a) <= Len(b) /\ SubSeq(b, 1, Len(a)) = a

LastN(q, n) == SubSeq(q, Len(q) - n + 1, Len(q))

RttsOf(q) == [i \in 1..Len(q) |-> q[i].rtt_ms]

\* the sample run holds while it is in, or suspended in, tx.send
Pending == IF pcP \in {"send", "send_wait"} THEN << sample >> ELSE << >>

Returned == pcU \in {"ret", "done"}

FailureKinds == {"spawn_err", "timeout", "nonzero", "no_rtt"}

(* ---- C1 ---------------------------------------------------------------- *)
\* C1: whenever run_tui has returned after enable_raw_mode succeeded, raw mode
\* is off and the alternate screen has been left, by exactly one restoration.
C1_RestoredOnEveryReturn ==
    (Returned /\ acquired) => (~rawMode /\ ~altScreen /\ restores = 1)

(* ---- C2 ---------------------------------------------------------------- *)
\* C2: once SIGINT has been delivered, a quit key has been read, or the
\* sampling task has finished, the process eventually exits.
C2_AnyTriggerEndsProcess ==
    (sigint \/ quitSeen \/ pcP = "stopped") ~> (pcM = "exited")

(* ---- C3 ---------------------------------------------------------------- *)
\* C3: the process exits with 0 after run_tui returned Ok and with a non-zero
\* status after run_tui returned Err, whichever select! arm main took.
C3_ExitStatus ==
    (pcM = "exited") =>
        /\ (res = "ok" => exitCode = 0)
        /\ (res = "err" => exitCode # 0)

(* ---- C4 ---------------------------------------------------------------- *)
\* C4: after a quit key is read the loop is never again at poll, read, drain or
\* draw; run_tui then returns Ok with the terminal restored and the process
\* exits with 0; and the loop is left for the restoration only by a quit key.
C4_QuitKey ==
    /\ quitSeen =>
         /\ pcU \notin {"poll", "read", "drain", "draw"}
         /\ (Returned => res = "ok" /\ ~rawMode /\ ~altScreen)
         /\ (pcM = "exited" => exitCode = 0)
    /\ pcU \in {"disable", "leave", "cursor"} => quitSeen

(* ---- C5 ---------------------------------------------------------------- *)
\* C5: the samples applied to the history are a prefix of the samples whose
\* send succeeded (none twice, none out of order, none skipped).
C5_AppliedPrefixOfSent == IsPrefix(applied, sent)

C5_Witness ==
    /\ rxOpen /\ Len(applied) >= 2 /\ Len(sent) > Len(applied)
    /\ applied[1].rtt_ms # applied[2].rtt_ms

(* ---- C6 ---------------------------------------------------------------- *)
\* C6: the channel never holds more than its capacity; while the receiver
\* lives and the task has not been cancelled, every sample built is applied,
\* buffered or held by the send, in order; a send suspends only on a full
\* channel and while suspended no probe is started and no sample changes
\* place except by draining; and a suspended send that finds a free slot
\* completes.
C6_NothingLost ==
    /\ Len(chan) <= ChanCap
    /\ (rxOpen /\ pcP # "cancelled") => produced = applied \o chan \o Pending

C6_SuspendedStep ==
    /\ (pcP # "send_wait" /\ pcP' = "send_wait") => Len(chan) = ChanCap
    /\ (pcP = "send_wait" /\ pcP' = "send_wait") =>
          /\ seq' = seq /\ produced' = produced /\ sample' = sample
          /\ chan' = chan \/ IsPrefix(chan', Tail(chan)) \/ chan' = << >>

C6_BackPressure ==
    /\ []C6_NothingLost
    /\ [][C6_SuspendedStep]_vars
    /\ (pcP = "send_wait" /\ Len(chan) < ChanCap) ~> (pcP # "send_wait")

C6_Witness ==
    /\ pcP = "send_wait" /\ rxOpen /\ Len(chan) < ChanCap
    /\ Len(applied) >= 1 /\ Len(produced) = ChanCap + 1

(* ---- C7 ---------------------------------------------------------------- *)
\* C7: the k-th sample built carries sequence number k, and the counter equals
\* the number of samples built, whatever the probes did.
C7_SequenceNumbers ==
    /\ seq = Len(produced)
    /\ \A k \in 1..Len(produced) : produced[k].seq = k

C7_Witness ==
    /\ Len(produced) = MaxSeq /\ outKind = "spawn_err"
    /\ produced[1].rtt_ms # None /\ produced[2].rtt_ms = None

(* ---- C8 ---------------------------------------------------------------- *)
\* C8: after a failed probe the loop holds a sample without RTT and is at its
\* send; that send puts the sample on the channel unless the receiver is gone
\* or the runtime is shutting down; and the loop stops only when the receiver
\* is gone.
C8_FailureIsLoss ==
    /\ outKind \in FailureKinds =>
          /\ pcP \in {"send", "send_wait"}
          /\ sample.rtt_ms = None
          /\ sample = produced[Len(produced)]
    /\ pcP = "stopped" => ~rxOpen

C8_FailureIsSent ==
    (outKind \in FailureKinds /\ pcP' \notin {"send", "send_wait"}) =>
        \/ sent' = Append(sent, sample) /\ chan' = Append(chan, sample) /\ pcP' = "sleep"
        \/ ~rxOpen /\ pcP' = "stopped"
        \/ pcM = "shutdown" /\ pcP' = "cancelled"

C8_ProbeFailures == []C8_FailureIsLoss /\ [][C8_FailureIsSent]_vars

C8_Witness ==
    /\ outKind = "nonzero" /\ pcP = "send" /\ rxOpen
    /\ Len(sent) >= 1 /\ sent[1].rtt_ms = None

(* ---- C9 ---------------------------------------------------------------- *)
\* C9: with capacity >= 1 the ring never holds more than `history` entries,
\* neither after a push nor between the two statements of a push.
C9_RingBounded ==
    history >= 1 => (Len(rtts) <= history /\ peak <= history)

C9_Witness == history >= 1 /\ total > history /\ Len(rtts) = history

(* ---- C10 --------------------------------------------------------------- *)
\* C10: with capacity >= 1 the ring is the last min(N, history) applied RTT
\* values in arrival order, N being the number of applied samples.
C10_RingIsRecent ==
    history >= 1 =>
        rtts = LastN(RttsOf(applied), Min(Len(applied), history))

C10_Witness ==
    /\ history >= 1 /\ Len(applied) > history /\ Len(rtts) = history
    /\ applied[1].rtt_ms # applied[Len(applied)].rtt_ms

(* ---- C11 --------------------------------------------------------------- *)
CountLost(q) == Len(SelectSeq(q, LAMBDA m : m.rtt_ms = None))

\* C11: total is the number of samples applied, lost the number of those
\* without RTT, lost <= total, last is the RTT of the newest applied sample
\* (None before one); neither counter ever decreases, whatever the ring evicts.
C11_CountersState ==
    /\ total = Len(applied)
    /\ lost = CountLost(applied)
    /\ lost <= total
    /\ last = IF applied = << >> THEN None ELSE applied[Len(applied)].rtt_ms

C11_Counters ==
    /\ []C11_CountersState
    /\ [][total' >= total /\ lost' >= lost]_vars

C11_Witness ==
    /\ history >= 1 /\ total > Len(rtts) /\ lost >= 1 /\ lost < total
    /\ rtts[1] # None

(* ---- C12 --------------------------------------------------------------- *)
\* the RTT values present in a window, in order
Present(w) == [i \in 1..Len(SelectSeq(w, LAMBDA v : v # None)) |->
                  SelectSeq(w, LAMBDA v : v # None)[i][1]]

RECURSIVE SeqSum(_)
SeqSum(q) == IF q = << >> THEN 0 ELSE q[Len(q)] + SeqSum(SubSeq(q, 1, Len(q) - 1))

SeqMax(q) == IF q = << >> THEN 0 ELSE CHOOSE v \in {q[i] : i \in 1..Len(q)} :
                                        \A i \in 1..Len(q) : q[i] <= v

Drawn == frame # NoFrame

\* the samples that had been applied when the frame was drawn, and of those
\* the last min(n, history) RTTs: the window the frame was computed from
ShownApplied == SubSeq(applied, 1, frame.shown)
ShownWindow == LastN(RttsOf(ShownApplied), Min(frame.shown, history))

\* C12: the avg of a drawn frame is undefined exactly when the window has no
\* present value, and otherwise is the sum of the present values of the window
\* divided by their number; [10, absent, 30] gives 20.
C12_Mean ==
    Drawn =>
      LET vals == Present(ShownWindow) IN
      /\ (frame.avg = None) <=> (vals = << >>)
      /\ vals # << >> =>
            /\ frame.avg[1].den > 0
            /\ frame.avg[1].num * Len(vals) = SeqSum(vals) * frame.avg[1].den
      /\ ShownWindow = << Some(10), None, Some(30) >> =>
            frame.avg[1].num = 20 * frame.avg[1].den

C12_Witness ==
    /\ Drawn /\ frame.shown = 4 /\ applied[1].rtt_ms = Some(50)
    /\ frame.points = << Some(10), None, Some(30) >>
    /\ frame.avg = Some(Frac(40, 2))

(* ---- C13 --------------------------------------------------------------- *)
\* C13: the loss of a drawn frame is 0 when nothing had been applied and
\* otherwise 100 * (applied samples without RTT) / (applied samples), counted
\* over the run; it lies in [0, 100]; 1 loss in 4 gives 25.
C13_LossPercent ==
    Drawn =>
      LET n == frame.shown
          l == CountLost(ShownApplied)
          p == frame.loss
      IN /\ p.den > 0 /\ 0 <= p.num /\ p.num <= 100 * p.den
         /\ n = 0 => p.num = 0
         /\ n > 0 => p.num * n = 100 * l * p.den
         /\ (n = 4 /\ l = 1) => p.num = 25 * p.den

C13_Witness ==
    /\ Drawn /\ frame.shown = 4 /\ CountLost(ShownApplied) = 1
    /\ \A i \in 1..Len(frame.points) : frame.points[i] # None
    /\ Len(frame.points) = history
    /\ frame.loss = Frac(100, 4)

(* ---- C14 --------------------------------------------------------------- *)
\* C14: the y_max of a drawn frame is the least integer that is at least
\* 1.2 * max(10, largest present value of the window); it is 12 for a window
\* without present values, 60 for a largest value of 50, never below 12 and
\* never below a value of the window.
C14_YAxisMax ==
    Drawn =>
      LET vals == Present(ShownWindow)
          m == Max(10, SeqMax(vals))
          y == frame.y_max
      IN /\ 10 * y >= 12 * m /\ 10 * (y - 1) < 12 * m
         /\ vals = << >> => y = 12
         /\ SeqMax(vals) = 50 => y = 60
         /\ y >= 12
         /\ \A i \in 1..Len(vals) : y >= vals[i]

C14_Witness ==
    /\ Drawn /\ frame.y_max = 60
    /\ frame.points = << Some(50), None, Some(30) >>

(* ---- C15 --------------------------------------------------------------- *)
\* C15: the seconds a probe gives to `ping -w` are the configured
\* milliseconds rounded up to whole seconds, and at least 1.
C15_TimeoutRoundedUp ==
    wArg # 0 =>
        /\ wArg >= 1
        /\ 1000 * wArg >= timeout_ms
        /\ 1000 * (wArg - 1) < timeout_ms

(* ---- C16 --------------------------------------------------------------- *)
LoopRunning == pcP \in {"probe", "send", "send_wait", "sleep"}

\* C16 as stated: run has returned only with the receiver gone and with Ok;
\* it returns only out of a send that found the receiver gone; and once the
\* receiver is gone the loop ends in no other way than by that return.
C16_StoppedState ==
    /\ pcP = "stopped" => (~rxOpen /\ runRes = "ok")
    /\ runRes # "err"

C16_StopStep ==
    /\ (pcP # "stopped" /\ pcP' = "stopped") =>
          (pcP \in {"send", "send_wait"} /\ ~rxOpen)
    /\ (~rxOpen /\ pcP \in {"send", "send_wait"} /\ pcP' # pcP) =>
          pcP' \in {"stopped", "cancelled"}

C16_StopsOnceReceiverGone ==
    /\ []C16_StoppedState
    /\ [][C16_StopStep]_vars
    /\ [][(~rxOpen /\ LoopRunning) => pcP' # "cancelled"]_vars

\* C16 amended: as above, but once the receiver is gone the loop ends by its
\* next send attempt or by the runtime's shutdown dropping the task,
\* whichever comes first, and one of the two happens.
C16_StopsOrIsDropped ==
    /\ []C16_StoppedState
    /\ [][C16_StopStep]_vars
    /\ (~rxOpen /\ LoopRunning) ~> (pcP \in {"stopped", "cancelled"})

C16_Witness ==
    /\ pcP = "stopped" /\ runRes = "ok" /\ ~rxOpen /\ pcM = "select"
    /\ Len(sent) = ChanCap /\ Len(produced) = ChanCap + 1

(* ---- C17 --------------------------------------------------------------- *)
InLoop == pcU \in {"poll", "read", "drain", "draw"}

\* C17: while the loop runs, every sample that has been sent is eventually
\* applied and part of a drawn frame; the drain follows the polling and the
\* draw follows the drain of the same tick.
C17_TickOrder ==
    /\ (pcU = "poll" /\ pcU' \notin {"poll", "read"}) => (pcU' = "drain" \/ ~InLoop')
    /\ (pcU = "drain" /\ pcU' # "drain") => pcU' = "draw"
    /\ (pcU = "draw" /\ pcU' # "draw") => (pcU' = "poll" \/ ~InLoop')

C17_EveryTickDrainsAndDraws ==
    /\ [][C17_TickOrder]_vars
    /\ \A n \in 1..MaxSeq :
         (InLoop /\ rxOpen /\ Len(sent) >= n) ~> (frame.shown >= n \/ ~InLoop)

(* ---- C18 --------------------------------------------------------------- *)
\* C18: once either loop has started, or a sample has been applied, the
\* capacity of the history is at least 1.
C18_CapacityValidated ==
    (seq > 0 \/ pcU # "raw" \/ total > 0) => history >= 1

(* ---- C19 --------------------------------------------------------------- *)
\* C19: total is the sequence number of the newest applied sample, 0 before
\* one is applied, and never exceeds the sampling loop's counter.
C19_TotalIsLastSeq ==
    /\ total = IF applied = << >> THEN 0 ELSE applied[Len(applied)].seq
    /\ total <= seq

C19_Witness ==
    /\ history >= 1 /\ total >= 2 /\ Len(rtts) < total /\ total < seq

====
